---- MODULE Spec2Model ----
(***************************************************************************)
(* Levenshtein metrics of the rstring crate (src/src/levenshtein.rs).      *)
(*                                                                         *)
(* A Rust &str is modelled as the sequence of its UTF-8 bytes; chars()     *)
(* decodes it to code points and collecting chars into a String encodes    *)
(* them again.  Vec<usize> rows are functions over 0..m, indexed from 0    *)
(* as in the source.  An f64 result is modelled by the exact fraction      *)
(* [num, den] of the two integers the source divides; IEEE division and    *)
(* subtraction are monotone and exact at 0 and 1, so a fraction lies in    *)
(* [0, 1] exactly when the f64 does.                                       *)
(***************************************************************************)
EXTENDS Integers, Sequences, FiniteSets, TLC

VARIABLES a, b, called, result, pc, i, j, prev, curr

vars == <<a, b, called, result, pc, i, j, prev, curr>>

(* ------------------------------ bounds --------------------------------- *)

\* Longest text (in code points) drawn as an input of the public functions.
MaxLen == 5

\* Longest text (in code points) drawn as an input of the stepwise run of
\* the two-row dynamic program.
MaxRowLen == 4

\* The code points texts are built from: 'a' (one UTF-8 byte) and 'e' with
\* an acute accent (two UTF-8 bytes).
CodePoints == {97, 233}

(* ------------------------------ helpers -------------------------------- *)

\* usize::min / usize::max
Min(x, y) == IF x <= y THEN x ELSE y

Max(x, y) == IF x >= y THEN x ELSE y

\* Element k of a Vec, counted from 0.
At(s, k) == s[k + 1]

\* The slice s[from..to] of a Vec, bounds counted from 0, `to` excluded.
Slice(s, from, to) == SubSeq(s, from + 1, to)

\* The UTF-8 encoding of one code point.
EncodeChar(cp) ==
    IF cp < 128 THEN <<cp>>
    ELSE IF cp < 2048 THEN <<192 + (cp \div 64), 128 + (cp % 64)>>
    ELSE IF cp < 65536
         THEN <<224 + (cp \div 4096), 128 + ((cp \div 64) % 64), 128 + (cp % 64)>>
         ELSE <<240 + (cp \div 262144), 128 + ((cp \div 4096) % 64),
                128 + ((cp \div 64) % 64), 128 + (cp % 64)>>

\* Collecting an iterator of chars into a String: the bytes of each char.
RECURSIVE collect_String(_)
collect_String(cs) ==
    IF cs = <<>> THEN <<>>
    ELSE EncodeChar(Head(cs)) \o collect_String(Tail(cs))

\* Number of bytes of the UTF-8 sequence that starts with byte b0.
Utf8Width(b0) ==
    IF b0 < 128 THEN 1 ELSE IF b0 < 224 THEN 2 ELSE IF b0 < 240 THEN 3 ELSE 4

\* The code point of one UTF-8 sequence.
DecodeChar(bs) ==
    IF Len(bs) = 1 THEN bs[1]
    ELSE IF Len(bs) = 2 THEN (bs[1] - 192) * 64 + (bs[2] - 128)
    ELSE IF Len(bs) = 3
         THEN (bs[1] - 224) * 4096 + (bs[2] - 128) * 64 + (bs[3] - 128)
         ELSE (bs[1] - 240) * 262144 + (bs[2] - 128) * 4096
              + (bs[3] - 128) * 64 + (bs[4] - 128)

\* s.chars().collect::<Vec<char>>(): the code points of a text.
RECURSIVE chars(_)
chars(s) ==
    IF s = <<>> THEN <<>>
    ELSE LET w == Utf8Width(Head(s))
         IN  <<DecodeChar(SubSeq(s, 1, w))>> \o chars(SubSeq(s, w + 1, Len(s)))

\* s.chars().count()
chars_count(s) == Len(chars(s))

(* --------------------- distance: the two-row program ------------------- *)

\* (0..=m).collect()
FirstRow(m) == [k \in 0..m |-> k]

\* vec![0; m + 1]
ZeroRow(m) == [k \in 0..m |-> 0]

\* Faulty variants of CellValue: a substitution charged also on a match; never
\* charged; every edit charged 2; and a deletion charged 2.
CellValueAlwaysCost(ac, b_chars, prevRow, currRow, jj) ==
    LET cost == 1
        deletion == prevRow[jj + 1] + 1
        insertion == currRow[jj] + 1
        substitution == prevRow[jj] + cost
    IN  Min(Min(deletion, insertion), substitution)

CellValueNeverCost(ac, b_chars, prevRow, currRow, jj) ==
    LET cost == 0
        deletion == prevRow[jj + 1] + 1
        insertion == currRow[jj] + 1
        substitution == prevRow[jj] + cost
    IN  Min(Min(deletion, insertion), substitution)

CellValueDoubleCost(ac, b_chars, prevRow, currRow, jj) ==
    LET cost == IF ac = At(b_chars, jj) THEN 0 ELSE 2
        deletion == prevRow[jj + 1] + 2
        insertion == currRow[jj] + 2
        substitution == prevRow[jj] + cost
    IN  Min(Min(deletion, insertion), substitution)

CellValueHeavyDeletion(ac, b_chars, prevRow, currRow, jj) ==
    LET cost == IF ac = At(b_chars, jj) THEN 0 ELSE 1
        deletion == prevRow[jj + 1] + 2
        insertion == currRow[jj] + 1
        substitution == prevRow[jj] + cost
    IN  Min(Min(deletion, insertion), substitution)

\* The value stored into curr[j + 1] by one pass of the inner loop body.
CellValue(ac, b_chars, prevRow, currRow, jj) ==
    LET cost == IF ac = At(b_chars, jj) THEN 0 ELSE 1
        deletion == prevRow[jj + 1] + 1
        insertion == currRow[jj] + 1
        substitution == prevRow[jj] + cost
    IN  Min(Min(deletion, insertion), substitution)

\* for j in 0..m { ... }: the inner loop from column jj on.
RECURSIVE InnerLoop(_, _, _, _, _)
InnerLoop(ac, b_chars, prevRow, currRow, jj) ==
    IF jj >= Len(b_chars) THEN currRow
    ELSE InnerLoop(ac, b_chars, prevRow,
                   [currRow EXCEPT ![jj + 1] =
                        CellValue(ac, b_chars, prevRow, currRow, jj)],
                   jj + 1)

\* for (i, &ac) in a_chars.iter().enumerate() { ... }: the outer loop from
\* row ii on; the swap makes the finished row the next prev and hands the old
\* prev over as the next curr.  The value is prev after the last row.
RECURSIVE OuterLoop(_, _, _, _, _)
OuterLoop(a_chars, b_chars, prevRow, currRow, ii) ==
    IF ii >= Len(a_chars) THEN prevRow
    ELSE LET row == InnerLoop(At(a_chars, ii), b_chars, prevRow,
                              [currRow EXCEPT ![0] = ii + 1], 0)
         IN  OuterLoop(a_chars, b_chars, row, prevRow, ii + 1)

distance(s, t) ==
    LET a_chars == chars(s)
        b_chars == chars(t)
        n == Len(a_chars)
        m == Len(b_chars)
    IN  IF n = 0 THEN m
        ELSE IF m = 0 THEN n
        ELSE OuterLoop(a_chars, b_chars, FirstRow(m), ZeroRow(m), 0)[m]

(* ------------------------- derived metrics ----------------------------- *)

\* usize::saturating_sub
saturating_sub(x, y) == IF y > x THEN 0 ELSE x - y

\* The f64 quotient x as f64 / y as f64 of two usize values, y > 0.
Quotient(x, y) == [num |-> x, den |-> y]

\* The f64 literals 0.0 and 1.0.
FloatZero == [num |-> 0, den |-> 1]

FloatOne == [num |-> 1, den |-> 1]

\* 1.0 - q
OneMinus(q) == [num |-> q.den - q.num, den |-> q.den]

normalized_distance(s, t) ==
    LET d == distance(s, t)
        max == Max(chars_count(s), chars_count(t))
    IN  IF max = 0 THEN FloatZero ELSE Quotient(d, max)

\* Faulty variant of similarity: the shorter length is taken.
similarity_min(s, t) ==
    LET max == Min(chars_count(s), chars_count(t))
    IN  saturating_sub(max, distance(s, t))

similarity(s, t) ==
    LET max == Max(chars_count(s), chars_count(t))
    IN  saturating_sub(max, distance(s, t))

normalized_similarity(s, t) ==
    LET max == Max(chars_count(s), chars_count(t))
    IN  IF max = 0 THEN FloatOne ELSE OneMinus(Quotient(distance(s, t), max))

(* --------------------------- partial_distance -------------------------- *)

\* usize::MAX, the initial min_dist.  It is 2^64 - 1 on a 64-bit target; the
\* model uses the largest integer of the checker, which like usize::MAX is
\* above every distance between two texts.
USIZE_MAX == 2147483647

\* Faulty variants of SlideLoop: the range 0..m - n, which leaves the last window
\* out; and the comparison d > min_dist, which never lowers min_dist.
RECURSIVE SlideLoopExclusive(_, _, _, _, _)
SlideLoopExclusive(short_str, long_chars, n, start, min_dist) ==
    IF start >= Len(long_chars) - n THEN min_dist
    ELSE LET window == collect_String(Slice(long_chars, start, start + n))
             d == distance(short_str, window)
         IN  IF d < min_dist
             THEN IF d = 0 THEN d
                  ELSE SlideLoopExclusive(short_str, long_chars, n, start + 1, d)
             ELSE SlideLoopExclusive(short_str, long_chars, n, start + 1, min_dist)

RECURSIVE SlideLoopGreater(_, _, _, _, _)
SlideLoopGreater(short_str, long_chars, n, start, min_dist) ==
    IF start > Len(long_chars) - n THEN min_dist
    ELSE LET window == collect_String(Slice(long_chars, start, start + n))
             d == distance(short_str, window)
         IN  IF d > min_dist
             THEN IF d = 0 THEN d
                  ELSE SlideLoopGreater(short_str, long_chars, n, start + 1, d)
             ELSE SlideLoopGreater(short_str, long_chars, n, start + 1, min_dist)

\* for start in 0..=m - n { ... }: the window loop from offset `start` on,
\* with the running minimum min_dist.  The value is min_dist at loop exit,
\* by exhaustion or by the break on a zero window.
RECURSIVE SlideLoop(_, _, _, _, _)
SlideLoop(short_str, long_chars, n, start, min_dist) ==
    IF start > Len(long_chars) - n THEN min_dist
    ELSE LET window == collect_String(Slice(long_chars, start, start + n))
             d == distance(short_str, window)
         IN  IF d < min_dist
             THEN IF d = 0 THEN d
                  ELSE SlideLoop(short_str, long_chars, n, start + 1, d)
             ELSE SlideLoop(short_str, long_chars, n, start + 1, min_dist)

\* Faulty variant of partial_distance: the window loop starts at offset 1.
partial_distance_from_one(s, t) ==
    LET a_chars == chars(s)
        b_chars == chars(t)
        short_chars == IF Len(a_chars) <= Len(b_chars) THEN a_chars ELSE b_chars
        long_chars == IF Len(a_chars) <= Len(b_chars) THEN b_chars ELSE a_chars
        n == Len(short_chars)
        m == Len(long_chars)
    IN  IF n = 0 THEN 0
        ELSE IF n = m
             THEN distance(collect_String(short_chars), collect_String(long_chars))
             ELSE SlideLoop(collect_String(short_chars), long_chars, n, 1, USIZE_MAX)

partial_distance(s, t) ==
    LET a_chars == chars(s)
        b_chars == chars(t)
        short_chars == IF Len(a_chars) <= Len(b_chars) THEN a_chars ELSE b_chars
        long_chars == IF Len(a_chars) <= Len(b_chars) THEN b_chars ELSE a_chars
        n == Len(short_chars)
        m == Len(long_chars)
    IN  IF n = 0 THEN 0
        ELSE IF n = m
             THEN distance(collect_String(short_chars), collect_String(long_chars))
             ELSE SlideLoop(collect_String(short_chars), long_chars, n, 0, USIZE_MAX)

\* Faulty variant of normalized_partial_distance: the full distance is divided.
normalized_partial_distance_full(s, t) ==
    LET d == distance(s, t)
        min == Min(chars_count(s), chars_count(t))
    IN  IF min = 0 THEN FloatZero ELSE Quotient(d, min)

normalized_partial_distance(s, t) ==
    LET d == partial_distance(s, t)
        min == Min(chars_count(s), chars_count(t))
    IN  IF min = 0 THEN FloatZero ELSE Quotient(d, min)

partial_similarity(s, t) ==
    LET min == Min(chars_count(s), chars_count(t))
    IN  saturating_sub(min, partial_distance(s, t))

normalized_partial_similarity(s, t) ==
    LET min == Min(chars_count(s), chars_count(t))
    IN  IF min = 0 THEN FloatOne
        ELSE OneMinus(Quotient(partial_distance(s, t), min))

(* ------------------------------ inputs --------------------------------- *)

\* Every sequence of at most L code points.
CharSeqs(L) == UNION {[1..k -> CodePoints] : k \in 0..L}

\* Every text of at most L code points, as a &str.
Texts(L) == {collect_String(cs) : cs \in CharSeqs(L)}

\* The literals of the tests and of main.
Kitten == collect_String(<<107, 105, 116, 116, 101, 110>>)

Sitting == collect_String(<<115, 105, 116, 116, 105, 110, 103>>)

Rust == collect_String(<<114, 117, 115, 116>>)

JohnWick == collect_String(<<106, 111, 104, 110, 32, 119, 105, 99, 107>>)

JohnWicker == collect_String(<<106, 111, 104, 110, 32, 119, 105, 99, 107, 101, 114>>)

\* The text wick, a contiguous run of the second literal of main.
Wick == collect_String(<<119, 105, 99, 107>>)

LiteralPairs ==
    {<<Kitten, Sitting>>, <<<<>>, <<>>>>, <<Rust, Rust>>,
     <<JohnWick, JohnWicker>>, <<Wick, JohnWicker>>}

(* ------------------- the public functions, as calls -------------------- *)

NoResult == <<>>

Idle ==
    /\ pc = "idle"
    /\ i = 0
    /\ j = 0
    /\ prev = <<>>
    /\ curr = <<>>

Init ==
    /\ \E p \in (Texts(MaxLen) \X Texts(MaxLen)) \cup LiteralPairs :
          a = p[1] /\ b = p[2]
    /\ called = "none"
    /\ result = NoResult
    /\ Idle

Returns(name, value) ==
    /\ called' = name
    /\ result' = value
    /\ UNCHANGED <<a, b, pc, i, j, prev, curr>>

Call_distance == Returns("distance", distance(a, b))

Call_normalized_distance ==
    Returns("normalized_distance", normalized_distance(a, b))

Call_similarity == Returns("similarity", similarity(a, b))

Call_normalized_similarity ==
    Returns("normalized_similarity", normalized_similarity(a, b))

Call_partial_distance == Returns("partial_distance", partial_distance(a, b))

Call_normalized_partial_distance ==
    Returns("normalized_partial_distance", normalized_partial_distance(a, b))

Call_partial_similarity ==
    Returns("partial_similarity", partial_similarity(a, b))

Call_normalized_partial_similarity ==
    Returns("normalized_partial_similarity", normalized_partial_similarity(a, b))

Next ==
    \/ Call_distance
    \/ Call_normalized_distance
    \/ Call_similarity
    \/ Call_normalized_similarity
    \/ Call_partial_distance
    \/ Call_normalized_partial_distance
    \/ Call_partial_similarity
    \/ Call_normalized_partial_similarity

Spec == Init /\ [][Next]_vars

(* --------------- distance(a, b), one statement at a time --------------- *)

\* The locals of the running call.
a_chars == chars(a)

b_chars == chars(b)

n == Len(a_chars)

m == Len(b_chars)

InitRows ==
    /\ \E p \in Texts(MaxRowLen) \X Texts(MaxRowLen) : a = p[1] /\ b = p[2]
    /\ called = "distance"
    /\ result = NoResult
    /\ pc = "entry"
    /\ i = 0
    /\ j = 0
    /\ prev = <<>>
    /\ curr = <<>>

\* if n == 0 { return m; }
ReturnEmptyA ==
    /\ pc = "entry"
    /\ n = 0
    /\ result' = m
    /\ pc' = "done"
    /\ UNCHANGED <<a, b, called, i, j, prev, curr>>

\* if m == 0 { return n; }
ReturnEmptyB ==
    /\ pc = "entry"
    /\ n # 0
    /\ m = 0
    /\ result' = n
    /\ pc' = "done"
    /\ UNCHANGED <<a, b, called, i, j, prev, curr>>

\* let mut prev = (0..=m).collect(); let mut curr = vec![0; m + 1];
AllocRows ==
    /\ pc = "entry"
    /\ n # 0
    /\ m # 0
    /\ prev' = FirstRow(m)
    /\ curr' = ZeroRow(m)
    /\ i' = 0
    /\ pc' = "outer"
    /\ UNCHANGED <<a, b, called, result, j>>

\* Entering the outer loop body for row i: curr[0] = i + 1, then j = 0.
\* An index outside a Vec panics.
RowStart ==
    /\ pc = "outer"
    /\ i < n
    /\ IF 0 \in DOMAIN curr
       THEN /\ curr' = [curr EXCEPT ![0] = i + 1]
            /\ j' = 0
            /\ pc' = "inner"
       ELSE /\ pc' = "panic"
            /\ UNCHANGED <<curr, j>>
    /\ UNCHANGED <<a, b, called, result, i, prev>>

\* One pass of the inner loop body, for column j.
Cell ==
    /\ pc = "inner"
    /\ j < m
    /\ IF /\ j + 1 <= Len(b_chars)
          /\ {j, j + 1} \subseteq DOMAIN prev
          /\ {j, j + 1} \subseteq DOMAIN curr
       THEN /\ curr' = [curr EXCEPT ![j + 1] =
                            CellValue(At(a_chars, i), b_chars, prev, curr, j)]
            /\ j' = j + 1
            /\ pc' = pc
       ELSE /\ pc' = "panic"
            /\ UNCHANGED <<curr, j>>
    /\ UNCHANGED <<a, b, called, result, i, prev>>

\* Faulty variant of SwapRows: the rows are not exchanged.
SwapRowsMissing ==
    /\ pc = "inner"
    /\ j >= m
    /\ i' = i + 1
    /\ pc' = "outer"
    /\ UNCHANGED <<a, b, called, result, j, prev, curr>>

\* std::mem::swap(&mut prev, &mut curr) at the end of the outer loop body.
SwapRows ==
    /\ pc = "inner"
    /\ j >= m
    /\ prev' = curr
    /\ curr' = prev
    /\ i' = i + 1
    /\ pc' = "outer"
    /\ UNCHANGED <<a, b, called, result, j>>

\* prev[m], after the last row.
ReturnLast ==
    /\ pc = "outer"
    /\ i >= n
    /\ IF m \in DOMAIN prev
       THEN /\ result' = prev[m]
            /\ pc' = "done"
       ELSE /\ pc' = "panic"
            /\ UNCHANGED result
    /\ UNCHANGED <<a, b, called, i, j, prev, curr>>

NextRows ==
    \/ ReturnEmptyA
    \/ ReturnEmptyB
    \/ AllocRows
    \/ RowStart
    \/ Cell
    \/ SwapRows
    \/ ReturnLast

SpecRows == InitRows /\ [][NextRows]_vars

(* ------------------------ reference definitions ------------------------ *)

\* The Levenshtein distance of two code-point sequences, by its defining
\* recursion on the sequences' tails.
RECURSIVE Lev(_, _)
Lev(x, y) ==
    IF x = <<>> THEN Len(y)
    ELSE IF y = <<>> THEN Len(x)
    ELSE IF Head(x) = Head(y) THEN Lev(Tail(x), Tail(y))
    ELSE 1 + Min(Min(Lev(Tail(x), y), Lev(x, Tail(y))), Lev(Tail(x), Tail(y)))

\* The code points of the two inputs, and which is the shorter.
A == chars(a)

B == chars(b)

Short == IF Len(A) <= Len(B) THEN A ELSE B

Long == IF Len(A) <= Len(B) THEN B ELSE A

n_short == Len(Short)

m_long == Len(Long)

\* The window of Long that starts at offset s, as a &str.
Window(s) == collect_String(Slice(Long, s, s + n_short))

\* The start offsets of the windows.
Offsets == 0..(m_long - n_short)

\* The least element of a non-empty set of numbers.
Least(S) == CHOOSE x \in S : \A y \in S : x <= y

\* x occurs in y as a contiguous run of code points.
IsSubstring(x, y) ==
    \E s \in 0..(Len(y) - Len(x)) : SubSeq(y, s + 1, s + Len(x)) = x

Abs(x) == IF x < 0 THEN -x ELSE x

\* A fraction that denotes a value of [0.0, 1.0].
InUnit(q) == q.den > 0 /\ 0 <= q.num /\ q.num <= q.den

(* -------------------------------- claims ------------------------------- *)

\* C1: distance(a, b) is the Levenshtein distance of the two code-point
\* sequences: the least number of single-code-point insertions, deletions
\* and substitutions turning a into b.  With an empty a it is len(b), with
\* an empty b it is len(a), and distance("kitten", "sitting") is 3.
C1_DistanceIsLevenshtein ==
    called = "distance" =>
        /\ result = Lev(A, B)
        /\ (A = <<>> => result = Len(B))
        /\ (B = <<>> => result = Len(A))
        /\ (a = Kitten /\ b = Sitting => result = 3)

C1_Witness ==
    /\ called = "distance"
    /\ a = Kitten
    /\ b = Sitting
    /\ result = 3

\* C2: partial_distance(a, b) is 0 when the shorter input is empty, is
\* distance(short, long) when the lengths are equal, and otherwise is the
\* least distance(short, window) over every window of long as long as short;
\* the break on a zero window does not change that minimum and the initial
\* usize::MAX is never returned.
C2_PartialIsLeastWindow ==
    called = "partial_distance" =>
        /\ result # USIZE_MAX
        /\ result =
             IF n_short = 0 THEN 0
             ELSE IF n_short = m_long
                  THEN distance(collect_String(Short), collect_String(Long))
                  ELSE Least({distance(collect_String(Short), Window(s)) :
                                 s \in Offsets})

\* The break happens with windows left unscanned that are not zero.
C2_Witness ==
    /\ called = "partial_distance"
    /\ 0 < n_short
    /\ n_short < m_long
    /\ \E s1 \in Offsets, s2 \in Offsets :
          /\ s1 < s2
          /\ distance(collect_String(Short), Window(s1)) = 0
          /\ distance(collect_String(Short), Window(s2)) > 0
    /\ result = 0

\* C3, as stated: for inputs of different lengths, partial_distance(A, B)
\* is at most distance(A, B).
C3_PartialAtMostFull ==
    called = "partial_distance" /\ Len(A) # Len(B) => result <= distance(a, b)

\* C3, amended: for inputs of different lengths, partial_distance(A, B) is at
\* most distance(A, B) plus the difference of the two lengths.
C3_PartialAtMostFullPlusGap ==
    called = "partial_distance" /\ Len(A) # Len(B) =>
        result <= distance(a, b) + Abs(Len(A) - Len(B))

\* No window of the longer input is as close to the shorter one as the whole
\* of the longer input is.
C3_Witness ==
    /\ called = "partial_distance"
    /\ Len(A) # Len(B)
    /\ result = distance(a, b) + 1

\* C4: distance is symmetric, distance(A, B) = distance(B, A), although the
\* rows are sized by B and the outer loop runs over A.
C4_DistanceSymmetric ==
    called = "distance" => result = distance(b, a)

C4_Witness ==
    /\ called = "distance"
    /\ Len(A) > 0
    /\ Len(B) > Len(A)
    /\ result > Len(B) - Len(A)
    /\ result = distance(b, a)

\* C5: distance(A, B) is 0 exactly when A and B are the same sequence of
\* code points; so distance(A, A) is 0 for every A, the empty one included.
C5_ZeroIffIdentical ==
    called = "distance" => (result = 0 <=> A = B)

C5_Witness ==
    /\ called = "distance"
    /\ A = B
    /\ Len(A) = MaxLen
    /\ result = 0

\* C6: distance(A, B) is at least the difference of the two lengths and at
\* most the greater of the two lengths.
C6_DistanceBounds ==
    called = "distance" =>
        /\ Abs(Len(A) - Len(B)) <= result
        /\ result <= Max(Len(A), Len(B))

\* The upper bound is met by inputs of different non-zero lengths.
C6_Witness ==
    /\ called = "distance"
    /\ 0 < Len(A)
    /\ Len(A) < Len(B)
    /\ result = Max(Len(A), Len(B))

C8_ZeroIffSubstring ==
    called = "partial_distance" =>
        /\ result = 0 <=> IsSubstring(Short, Long)
        /\ (a = Wick /\ b = JohnWicker => result = 0)

C8_Witness ==
    /\ called = "partial_distance"
    /\ a = Wick
    /\ b = JohnWicker
    /\ IsSubstring(Short, Long)
    /\ result = 0

C10_RowInvariant ==
    /\ pc # "panic"
    /\ pc \in {"outer", "inner"} =>
          /\ DOMAIN prev = 0..m
          /\ DOMAIN curr = 0..m
          /\ i \in 0..n
          /\ j \in 0..m
    /\ pc = "inner" => i < n
    /\ pc = "outer" /\ i = 0 => \A k \in 0..m : prev[k] = k
    /\ pc = "outer" /\ i > 0 =>
          /\ prev[0] = i
          /\ \A k \in 0..m :
                prev[k] = Lev(SubSeq(a_chars, 1, i), SubSeq(b_chars, 1, k))
    /\ pc = "done" /\ n # 0 /\ m # 0 => i = n /\ result = prev[m]

\* The call has returned after rows in which both a match and a mismatch
\* were met.
C10_Witness ==
    /\ pc = "done"
    /\ n = MaxRowLen
    /\ m = MaxRowLen
    /\ result = 2
    /\ result = prev[m]

====
